---- MODULE Spec2Model ----
(***************************************************************************)
(* Model of igraphmodule_api.h, the consumer side of igraph's C API        *)
(* capability table: the static pointer PyIGraph_API, the loader           *)
(* import_igraph() executed statement by statement, and the two dispatch   *)
(* macros PyIGraph_FromCGraph / PyIGraph_ToCGraph.                         *)
(*                                                                         *)
(* PyObject* values are modelled as strings ("NULL" is the null object     *)
(* pointer); void** values are naturals, 0 being the null pointer and      *)
(* 1..NumTables the addresses of the tables a producer may publish.        *)
(***************************************************************************)
EXTENDS Integers, Sequences, FiniteSets, TLC

\* ---------------------------------------------------------------- bounds
NumTables == 2
NumArgs == 2

\* ------------------------------------------------------------- constants
PyIGraph_FromCGraph_NUM == 0
PyIGraph_ToCGraph_NUM == 1
PyIGraph_API_pointers == 2
NULL == 0

Tables == 1..NumTables
Args == 1..NumArgs
Indices == 0..(PyIGraph_API_pointers - 1)
AttrKinds == {"absent", "notCObject", "CObject"}

VARIABLES
  PyIGraph_API,   \* static void** PyIGraph_API
  pc,             \* position of the consumer in / around import_igraph
  module,         \* local PyObject *module
  c_api_object,   \* local PyObject *c_api_object
  ret,            \* value returned by import_igraph (meaningful once pc = "done")
  err,            \* the interpreter's error indicator
  loadable,       \* environment: "igraph._igraph" can be imported
  attrKind,       \* environment: what the module has under "_C_API"
  table,          \* environment: address of the producer's pointer table
  apiBefore,      \* PyIGraph_API at entry of the current call
  acqModule, relModule,   \* references to the module taken / dropped by the call
  acqAttr, relAttr,       \* references to the attribute taken / dropped by the call
  prev,           \* situation and outcome of the previous completed call
  invoke          \* last call made through PyIGraph_API

vars == <<PyIGraph_API, pc, module, c_api_object, ret, err, loadable, attrKind,
          table, apiBefore, acqModule, relModule, acqAttr, relAttr, prev, invoke>>

env == <<loadable, attrKind, table>>
locals == <<module, c_api_object>>
refs == <<acqModule, relModule, acqAttr, relAttr>>

NoPrev == [valid |-> FALSE, env |-> <<FALSE, "absent", 1>>, ret |-> 0, api |-> NULL]
NoInvoke == [done |-> FALSE, idx |-> 0, arg |-> 1, result |-> <<"none", 0, 0>>]

\* ------------------------------------------------- producer side, memory
\* The producer's functions: the result identifies the function that ran,
\* the table it belongs to and the argument it was given.
ProducerFromCGraph(t, a) == <<"FromCGraph", t, a>>
ProducerToCGraph(t, a) == <<"ToCGraph", t, a>>

\* Contents of the pointer table at address t: slot i holds the function
\* the producer published at index i.
TableAt(t) == [i \in Indices |-> IF i = PyIGraph_FromCGraph_NUM THEN "FromCGraph" ELSE "ToCGraph"]

CallPointer(t, name, a) ==
  IF name = "FromCGraph" THEN ProducerFromCGraph(t, a) ELSE ProducerToCGraph(t, a)

\* Calling the producer's function of index i directly.
DirectCall(t, i, a) ==
  IF i = PyIGraph_FromCGraph_NUM THEN ProducerFromCGraph(t, a) ELSE ProducerToCGraph(t, a)

\* Everything a call through a null table pointer may do.
UndefinedOutcomes ==
  {<<"crash", 0, 0>>} \cup
  {CallPointer(t, n, a) : t \in Tables, n \in {"FromCGraph", "ToCGraph"}, a \in Args}

\* (*(RETURN (*)PROTO) PyIGraph_API[NUM])(a)
InvokeOutcomes(api, i, a) ==
  IF api = NULL THEN UndefinedOutcomes ELSE {CallPointer(api, TableAt(api)[i], a)}

\* ------------------------------------------------ interpreter primitives
PyImport_ImportModule == IF loadable THEN "igraph._igraph" ELSE "NULL"
PyObject_GetAttrString == IF attrKind = "absent" THEN "NULL" ELSE attrKind
PyCObject_Check(o) == o = "CObject"
PyCObject_AsVoidPtr(o) == IF o = "CObject" THEN table ELSE NULL

\* ------------------------------------------------------------------ Init
Init ==
  /\ PyIGraph_API = NULL
  /\ pc = "idle"
  /\ module = "NULL"
  /\ c_api_object = "NULL"
  /\ ret = 0
  /\ err = "none"
  /\ loadable \in BOOLEAN
  /\ attrKind \in AttrKinds
  /\ table \in Tables
  /\ apiBefore = NULL
  /\ acqModule = 0 /\ relModule = 0 /\ acqAttr = 0 /\ relAttr = 0
  /\ prev = NoPrev
  /\ invoke = NoInvoke

\* --------------------------------------------------------------- actions
\* The producer environment changes between two calls.
ChangeEnvironment ==
  /\ pc = "idle"
  /\ \E l \in BOOLEAN, k \in AttrKinds, t \in Tables :
       /\ <<l, k, t>> # env
       /\ loadable' = l /\ attrKind' = k /\ table' = t
  /\ UNCHANGED <<PyIGraph_API, pc, locals, ret, err, apiBefore, refs, prev, invoke>>

\* The consumer calls import_igraph().
Call ==
  /\ pc = "idle"
  /\ pc' = "l62"
  /\ module' = "NULL" /\ c_api_object' = "NULL"
  /\ ret' = 0
  /\ apiBefore' = PyIGraph_API
  /\ acqModule' = 0 /\ relModule' = 0 /\ acqAttr' = 0 /\ relAttr' = 0
  /\ UNCHANGED <<PyIGraph_API, err, env, prev, invoke>>

\* module = PyImport_ImportModule("igraph._igraph");
ImportModule ==
  /\ pc = "l62"
  /\ module' = PyImport_ImportModule
  /\ IF PyImport_ImportModule = "NULL"
       THEN err' = "ImportError" /\ UNCHANGED acqModule
       ELSE acqModule' = acqModule + 1 /\ UNCHANGED err
  /\ pc' = "l63"
  /\ UNCHANGED <<PyIGraph_API, c_api_object, ret, env, apiBefore,
                 relModule, acqAttr, relAttr, prev, invoke>>

\* Variant of CheckModule: a failed import also resets the cached pointer.
CheckModule_ResetsCache ==
  /\ pc = "l63"
  /\ IF module = "NULL"
       THEN ret' = -1 /\ pc' = "done" /\ PyIGraph_API' = NULL
       ELSE pc' = "l66" /\ UNCHANGED <<ret, PyIGraph_API>>
  /\ UNCHANGED <<locals, err, env, apiBefore, refs, prev, invoke>>

\* if (module == 0) return -1;
CheckModule ==
  /\ pc = "l63"
  /\ IF module = "NULL"
       THEN ret' = -1 /\ pc' = "done"
       ELSE pc' = "l66" /\ UNCHANGED ret
  /\ UNCHANGED <<PyIGraph_API, locals, err, env, apiBefore, refs, prev, invoke>>

\* c_api_object = PyObject_GetAttrString(module, "_C_API");
GetAttr ==
  /\ pc = "l66"
  /\ c_api_object' = PyObject_GetAttrString
  /\ IF PyObject_GetAttrString = "NULL"
       THEN err' = "AttributeError" /\ UNCHANGED acqAttr
       ELSE acqAttr' = acqAttr + 1 /\ UNCHANGED err
  /\ pc' = "l67"
  /\ UNCHANGED <<PyIGraph_API, module, ret, env, apiBefore,
                 acqModule, relModule, relAttr, prev, invoke>>

\* Variant of CheckAttr: the error path releases the module but returns 0.
CheckAttr_ReturnsZero ==
  /\ pc = "l67"
  /\ IF c_api_object = "NULL"
       THEN relModule' = relModule + 1 /\ ret' = 0 /\ pc' = "done"
       ELSE pc' = "l72" /\ UNCHANGED <<relModule, ret>>
  /\ UNCHANGED <<PyIGraph_API, locals, err, env, apiBefore,
                 acqModule, acqAttr, relAttr, prev, invoke>>

\* Variant of CheckAttr: the error path returns without Py_DECREF(module).
CheckAttr_NoDecref ==
  /\ pc = "l67"
  /\ IF c_api_object = "NULL"
       THEN ret' = -1 /\ pc' = "done"
       ELSE pc' = "l72" /\ UNCHANGED ret
  /\ UNCHANGED <<PyIGraph_API, locals, err, env, apiBefore, refs, prev, invoke>>

\* if (c_api_object == 0) { Py_DECREF(module); return -1; }
CheckAttr ==
  /\ pc = "l67"
  /\ IF c_api_object = "NULL"
       THEN relModule' = relModule + 1 /\ ret' = -1 /\ pc' = "done"
       ELSE pc' = "l72" /\ UNCHANGED <<relModule, ret>>
  /\ UNCHANGED <<PyIGraph_API, locals, err, env, apiBefore,
                 acqModule, acqAttr, relAttr, prev, invoke>>

\* Variant of CheckAndStore: the pointer is stored without the type check.
CheckAndStore_Unchecked ==
  /\ pc = "l72"
  /\ PyIGraph_API' = PyCObject_AsVoidPtr(c_api_object)
  /\ pc' = "l75"
  /\ UNCHANGED <<locals, ret, err, env, apiBefore, refs, prev, invoke>>

\* Variant of CheckAndStore: the pointer is stored only while the cache is unset.
CheckAndStore_Once ==
  /\ pc = "l72"
  /\ IF PyCObject_Check(c_api_object) /\ PyIGraph_API = NULL
       THEN PyIGraph_API' = PyCObject_AsVoidPtr(c_api_object)
       ELSE UNCHANGED PyIGraph_API
  /\ pc' = "l75"
  /\ UNCHANGED <<locals, ret, err, env, apiBefore, refs, prev, invoke>>

\* if (PyCObject_Check(c_api_object))
\*   PyIGraph_API = (void**)PyCObject_AsVoidPtr(c_api_object);
CheckAndStore ==
  /\ pc = "l72"
  /\ IF PyCObject_Check(c_api_object)
       THEN PyIGraph_API' = PyCObject_AsVoidPtr(c_api_object)
       ELSE UNCHANGED PyIGraph_API
  /\ pc' = "l75"
  /\ UNCHANGED <<locals, ret, err, env, apiBefore, refs, prev, invoke>>

\* Py_DECREF(c_api_object);
DecrefAttr ==
  /\ pc = "l75"
  /\ relAttr' = relAttr + 1
  /\ pc' = "l76"
  /\ UNCHANGED <<PyIGraph_API, locals, ret, err, env, apiBefore,
                 acqModule, relModule, acqAttr, prev, invoke>>

\* Py_DECREF(module);
DecrefModule ==
  /\ pc = "l76"
  /\ relModule' = relModule + 1
  /\ pc' = "l77"
  /\ UNCHANGED <<PyIGraph_API, locals, ret, err, env, apiBefore,
                 acqModule, acqAttr, relAttr, prev, invoke>>

\* Variant of ReturnSuccess: the status tells whether the cache is set.
ReturnSuccess_IfSet ==
  /\ pc = "l77"
  /\ ret' = (IF PyIGraph_API = NULL THEN -1 ELSE 0)
  /\ pc' = "done"
  /\ UNCHANGED <<PyIGraph_API, locals, err, env, apiBefore, refs, prev, invoke>>

\* Variant of ReturnSuccess: a call that found the cache already set reports an error.
ReturnSuccess_RejectsReinit ==
  /\ pc = "l77"
  /\ ret' = (IF apiBefore # NULL THEN -1 ELSE 0)
  /\ pc' = "done"
  /\ UNCHANGED <<PyIGraph_API, locals, err, env, apiBefore, refs, prev, invoke>>

\* return 0;
ReturnSuccess ==
  /\ pc = "l77"
  /\ ret' = 0
  /\ pc' = "done"
  /\ UNCHANGED <<PyIGraph_API, locals, err, env, apiBefore, refs, prev, invoke>>

\* A consumer that was told 0 calls one of the two macros.
Invoke ==
  /\ pc = "done"
  /\ ret = 0
  /\ \E i \in Indices, a \in Args :
       \E r \in InvokeOutcomes(PyIGraph_API, i, a) :
         invoke' = [done |-> TRUE, idx |-> i, arg |-> a, result |-> r]
  /\ pc' = "invoked"
  /\ UNCHANGED <<PyIGraph_API, locals, ret, err, env, apiBefore, refs, prev>>

\* The caller consumes the status and the pending exception, if any.
CallerHandles ==
  /\ pc \in {"done", "invoked"}
  /\ prev' = [valid |-> TRUE, env |-> env, ret |-> ret, api |-> PyIGraph_API]
  /\ err' = "none"
  /\ invoke' = NoInvoke
  /\ pc' = "idle"
  /\ UNCHANGED <<PyIGraph_API, locals, ret, env, apiBefore, refs>>

Next ==
  \/ ChangeEnvironment
  \/ Call
  \/ ImportModule
  \/ CheckModule
  \/ GetAttr
  \/ CheckAttr
  \/ CheckAndStore
  \/ DecrefAttr
  \/ DecrefModule
  \/ ReturnSuccess
  \/ Invoke
  \/ CallerHandles

Spec == Init /\ [][Next]_vars

\* ------------------------------------------------------------ properties
Returned == pc \in {"done", "invoked"}
Resolves == loadable /\ attrKind = "CObject"
HeldModule == acqModule - relModule
HeldAttr == acqAttr - relAttr

\* C1: import_igraph returns 0 exactly when the module is loadable, publishes
\* _C_API and _C_API is an opaque handle; it returns -1 in every other case.
C1_SuccessIffResolvable ==
  Returned => ((ret = 0) <=> (loadable /\ attrKind # "absent" /\ attrKind = "CObject"))

\* C2: after every call that returned 0 the cache is the producer's table
\* (never unset) and a call through index 0 or 1 gives the result of the
\* producer's function of that index on the same argument.
C2_SuccessSetsCacheAndDispatches ==
  /\ (Returned /\ ret = 0) => (PyIGraph_API # NULL /\ PyIGraph_API = table)
  /\ invoke.done => invoke.result = DirectCall(table, invoke.idx, invoke.arg)

\* C3: when _C_API exists but is not an opaque handle, import_igraph fails
\* (returns -1) with a reported type error.
C3_TypeMismatchFails ==
  (Returned /\ loadable /\ attrKind = "notCObject") => (ret = -1 /\ err = "TypeError")

\* C4: when the module cannot be loaded, import_igraph returns -1 with an
\* import error pending and PyIGraph_API is what it was before the call.
C4_ModuleNotFound ==
  (Returned /\ ~loadable) =>
    (ret = -1 /\ err = "ImportError" /\ PyIGraph_API = apiBefore)

C4_Witness ==
  /\ pc = "done" /\ ~loadable /\ ret = -1
  /\ apiBefore \in Tables /\ PyIGraph_API = apiBefore

\* C5: when the module loads but has no _C_API, import_igraph returns -1 with
\* an attribute error pending (not an import error) and PyIGraph_API is what
\* it was before the call.
C5_AttributeMissing ==
  (Returned /\ loadable /\ attrKind = "absent") =>
    (ret = -1 /\ err = "AttributeError" /\ err # "ImportError" /\ PyIGraph_API = apiBefore)

C5_Witness ==
  /\ pc = "done" /\ loadable /\ attrKind = "absent" /\ err = "AttributeError"
  /\ apiBefore \in Tables

\* C6 (as stated): after a call, PyIGraph_API is the table the call resolved
\* if it resolved one, and is not a table left over from an earlier call
\* otherwise.
C6_NoLeftoverTable ==
  Returned => PyIGraph_API = (IF Resolves THEN table ELSE NULL)

\* C6 (amended): after a call, PyIGraph_API is the table the call resolved if
\* it resolved one, and otherwise the value it had before the call, i.e. the
\* table of the most recent call that resolved one.
C6_MostRecentResolved ==
  Returned => PyIGraph_API = (IF Resolves THEN table ELSE apiBefore)

C6_Witness ==
  /\ pc = "done" /\ Resolves /\ prev.valid
  /\ apiBefore \in Tables /\ apiBefore # table /\ PyIGraph_API = table

\* C7: once PyIGraph_API is set, no step of any call unsets it.
C7_SetIsIrreversible ==
  [][PyIGraph_API # NULL => PyIGraph_API' # NULL]_vars

C7_Witness ==
  /\ pc = "done" /\ loadable /\ attrKind = "notCObject"
  /\ apiBefore \in Tables /\ PyIGraph_API \in Tables

C9_Idempotent ==
  (Returned /\ prev.valid /\ prev.env = env) =>
    (ret = prev.ret /\ PyIGraph_API = prev.api)

C9_Witness ==
  /\ pc = "done" /\ prev.valid /\ prev.env = env /\ Resolves
  /\ ret = 0 /\ PyIGraph_API = table

\* C10: the call never drops a reference it did not take, takes and drops
\* each of its two references at most once, and holds none when it returns.
C10_ReferencesBalanced ==
  /\ HeldModule >= 0 /\ HeldAttr >= 0
  /\ relModule <= 1 /\ relAttr <= 1
  /\ acqModule = (IF module = "NULL" THEN 0 ELSE 1)
  /\ acqAttr = (IF c_api_object = "NULL" THEN 0 ELSE 1)
  /\ Returned => (HeldModule = 0 /\ HeldAttr = 0)

C10_Witness ==
  /\ pc = "done" /\ ret = -1 /\ acqModule = 1 /\ relModule = 1 /\ acqAttr = 0
====
